---- MODULE Spec2Model ----
(***************************************************************************)
(* A model of generate_icons.py: the function create_diamond, statement by *)
(* statement, and the module's top level that renders and saves the four   *)
(* tray icons and prints a confirmation line.                              *)
(*                                                                         *)
(* Two specifications share the statements of create_diamond:              *)
(*   Spec        the script as it is run (lines 35-40), any statement of   *)
(*               which may raise in the imaging library;                   *)
(*   RenderSpec  create_diamond called over and over, in any order, with   *)
(*               arguments drawn from a pool chosen initially.             *)
(***************************************************************************)
EXTENDS Integers, Sequences, FiniteSets, TLC

VARIABLES
    pc,       \* position of the module's top level: "L35".."L40", "exit0", "exit1", "harness"
    cpc,      \* position inside create_diamond: "none", "L5".."L32", "returned"
    frame,    \* the locals of the running call of create_diamond (a record that grows)
    img,      \* the canvas the name img is bound to (NoImg when unbound)
    disk,     \* file name -> content, for the four file names of the script
    writes,   \* the file names saved so far, in order
    stdout,   \* the lines printed so far
    exc,      \* the exception that ended the program, if any
    pool,     \* the sizes the caller draws its arguments from
    results,  \* every (size, has_dot, canvas) a call has returned so far
    repeated  \* whether some call has returned for arguments returned before

vars == <<pc, cpc, frame, img, disk, writes, stdout, exc, pool, results, repeated>>

---------------------------------------------------------------------------
(* Bounds and program constants *)

MaxSize == 12

Size1x == 22

Size2x == 44

Max(a, b) == IF a >= b THEN a ELSE b

Abs(a) == IF a >= 0 THEN a ELSE -a

---------------------------------------------------------------------------
(* Colours and canvases *)

Transparent == <<0, 0, 0, 0>>

White == <<255, 255, 255, 255>>

Green == <<0, 255, 0, 255>>

NoImg == [width |-> 0, height |-> 0, px |-> <<>>]

PixelsOf(w, h) == (0 .. w - 1) \X (0 .. h - 1)

\* a variant of ImageNew: the colour given without its alpha, (0, 0, 0), which
\* the library completes to opaque black
ImageNew_Opaque(size) ==
    [width |-> size, height |-> size,
     px |-> [p \in PixelsOf(size, size) |-> <<0, 0, 0, 255>>]]

\* Image.new('RGBA', (size, size), (0, 0, 0, 0))
ImageNew(size) ==
    [width |-> size, height |-> size,
     px |-> [p \in PixelsOf(size, size) |-> Transparent]]

---------------------------------------------------------------------------
(* The locals of create_diamond, as the source computes them *)

\* a variant of margin: size // 8
margin_Eighth(size) == size \div 8

\* line 11: margin = size // 4
margin(size) == size \div 4

\* a variant of points: the right and bottom vertices one pixel further in
points_Inset(size, m) ==
    << <<size \div 2, m>>,
       <<size - m - 1, size \div 2>>,
       <<size \div 2, size - m - 1>>,
       <<m, size \div 2>> >>

\* lines 12-17: the diamond's vertices: top, right, bottom, left
points(size, m) ==
    << <<size \div 2, m>>,
       <<size - m, size \div 2>>,
       <<size \div 2, size - m>>,
       <<m, size \div 2>> >>

\* a variant of dot_margin: size // 4 for size // 10
dot_margin_Quarter(size) == Max(2, size \div 4)

\* line 22: dot_margin = max(2, size // 10)
dot_margin(size) == Max(2, size \div 10)

\* a variant of dot_size: size * 6 for size // 6
dot_size_Times(size) == Max(3, size * 6)

\* line 23: dot_size = max(3, size // 6)
dot_size(size) == Max(3, size \div 6)

\* a variant of dot_pos: the lower right corner without the margin
dot_pos_NoMargin(size, dm, ds) ==
    << size - dm - ds, size - dm - ds, size, size >>

\* lines 24-29: the badge's bounding box [x0, y0, x1, y1]
dot_pos(size, dm, ds) ==
    << size - dm - ds, size - dm - ds, size - dm, size - dm >>

---------------------------------------------------------------------------
(* draw.polygon(points, fill): the scanline fill of the imaging library.   *)
(* On every row the span runs from the leftmost to the rightmost crossing  *)
(* of the row with a non-horizontal edge, each rounded to the nearest      *)
(* pixel; a horizontal edge is drawn as a line. The polygons of            *)
(* create_diamond are convex, so a row has one span.                       *)

EdgesOf(pts) == { <<pts[i], pts[(i % Len(pts)) + 1]>> : i \in 1 .. Len(pts) }

\* the end of an edge with the smaller y, and the other end
Lo(e) == IF e[1][2] <= e[2][2] THEN e[1] ELSE e[2]

Hi(e) == IF e[1][2] <= e[2][2] THEN e[2] ELSE e[1]

Crosses(e, y) == Lo(e)[2] < Hi(e)[2] /\ Lo(e)[2] <= y /\ y <= Hi(e)[2]

\* 2 * dy * (the x at which edge e crosses row y), with dy > 0
CrossX2(e, y) ==
    2 * (Hi(e)[2] - Lo(e)[2]) * Lo(e)[1] + 2 * (y - Lo(e)[2]) * (Hi(e)[1] - Lo(e)[1])

\* x is at or right of the crossing rounded to the nearest pixel: x > cross - 1/2
AtOrRightOf(e, x, y) ==
    2 * (Hi(e)[2] - Lo(e)[2]) * x > CrossX2(e, y) - (Hi(e)[2] - Lo(e)[2])

\* x is at or left of the crossing rounded to the nearest pixel: x < cross + 1/2
AtOrLeftOf(e, x, y) ==
    2 * (Hi(e)[2] - Lo(e)[2]) * x < CrossX2(e, y) + (Hi(e)[2] - Lo(e)[2])

OnHorizontalEdge(e, x, y) ==
    /\ e[1][2] = e[2][2]
    /\ y = e[1][2]
    /\ (IF e[1][1] <= e[2][1] THEN e[1][1] ELSE e[2][1]) <= x
    /\ x <= (IF e[1][1] <= e[2][1] THEN e[2][1] ELSE e[1][1])

PolygonCovers(pts, x, y) ==
    \/ \E e \in EdgesOf(pts) : OnHorizontalEdge(e, x, y)
    \/ /\ \E e \in EdgesOf(pts) : Crosses(e, y) /\ AtOrRightOf(e, x, y)
       /\ \E e \in EdgesOf(pts) : Crosses(e, y) /\ AtOrLeftOf(e, x, y)

\* line 19: draw.polygon(points, fill=...) on the canvas image
draw_polygon(image, pts, fill) ==
    [image EXCEPT !.px =
        [p \in DOMAIN image.px |->
            IF PolygonCovers(pts, p[1], p[2]) THEN fill ELSE image.px[p]]]

---------------------------------------------------------------------------
(* draw.ellipse(box, fill): the filled ellipse of the imaging library. In  *)
(* coordinates doubled about the box's centre, a quarter of the outline is *)
(* walked from (a, b % 2) to (a % 2, b), each step going to the neighbour  *)
(* closest to the curve; a row is filled between the first point the walk  *)
(* visits on it and that point's mirror image.                             *)

QuarterDelta(a, b, x, y) == Abs(a * a * y * y + b * b * x * x - a * a * b * b)

\* the next point of the walk after (cx, cy)
QuarterNext(a, b, cx, cy) ==
    LET up   == <<cx, cy + 2>>
        diag == <<cx - 2, cy + 2>>
        left == <<cx - 2, cy>>
        n1   == IF cx > 1 /\ QuarterDelta(a, b, up[1], up[2]) > QuarterDelta(a, b, diag[1], diag[2])
                THEN diag ELSE up
    IN  IF cx > 1 /\ QuarterDelta(a, b, n1[1], n1[2]) > QuarterDelta(a, b, left[1], left[2])
        THEN left ELSE n1

\* row -> the x of the first point the walk visits on that row
RECURSIVE QuarterRows(_, _, _, _, _)
QuarterRows(a, b, cx, cy, rows) ==
    LET seen == IF cy \in DOMAIN rows THEN rows ELSE rows @@ (cy :> cx)
    IN  IF cy > b THEN rows
        ELSE IF cx = a % 2 /\ cy = b THEN seen
        ELSE QuarterRows(a, b, QuarterNext(a, b, cx, cy)[1],
                         QuarterNext(a, b, cx, cy)[2], seen)

EllipseRows(box) ==
    IF box[3] - box[1] < 0 \/ box[4] - box[2] < 0
    THEN <<>>
    ELSE QuarterRows(box[3] - box[1], box[4] - box[2],
                     box[3] - box[1], (box[4] - box[2]) % 2, <<>>)

EllipseCovers(box, rows, x, y) ==
    /\ Abs(2 * (y - box[2]) - (box[4] - box[2])) \in DOMAIN rows
    /\ Abs(2 * (x - box[1]) - (box[3] - box[1]))
          <= rows[Abs(2 * (y - box[2]) - (box[4] - box[2]))]

\* line 30: draw.ellipse(dot_pos, fill=...) on the canvas image
draw_ellipse(image, box, fill) ==
    LET rows == EllipseRows(box)
    IN  [image EXCEPT !.px =
            [p \in DOMAIN image.px |->
                IF EllipseCovers(box, rows, p[1], p[2]) THEN fill ELSE image.px[p]]]

---------------------------------------------------------------------------
(* create_diamond(size, has_dot), one action per statement *)

NoFrame == <<>>

Bind(f, name, value) == (name :> value) @@ f

InCall == cpc \notin {"none", "returned"}

\* the running (or just returned) call has bound the local name
HasLocal(name) == cpc # "none" /\ name \in DOMAIN frame

\* a variant of line 5: a canvas of the right size left by an earlier call is
\* used once more without being cleared
L5_ImageReuse ==
    /\ cpc = "L5"
    /\ img' = IF img.width = frame.size THEN img ELSE ImageNew(frame.size)
    /\ cpc' = "L11"
    /\ UNCHANGED <<pc, frame, disk, writes, stdout, exc, pool, results, repeated>>

\* line 5-6: img = Image.new(...); draw = ImageDraw.Draw(img)
L5_ImageNew ==
    /\ cpc = "L5"
    /\ img' = ImageNew(frame.size)
    /\ cpc' = "L11"
    /\ UNCHANGED <<pc, frame, disk, writes, stdout, exc, pool, results, repeated>>

\* line 11
L11_Margin ==
    /\ cpc = "L11"
    /\ frame' = Bind(frame, "margin", margin(frame.size))
    /\ cpc' = "L12"
    /\ UNCHANGED <<pc, img, disk, writes, stdout, exc, pool, results, repeated>>

\* lines 12-17
L12_Points ==
    /\ cpc = "L12"
    /\ frame' = Bind(frame, "points", points(frame.size, frame.margin))
    /\ cpc' = "L19"
    /\ UNCHANGED <<pc, img, disk, writes, stdout, exc, pool, results, repeated>>

\* line 19
L19_Polygon ==
    /\ cpc = "L19"
    /\ img' = draw_polygon(img, frame.points, White)
    /\ cpc' = "L21"
    /\ UNCHANGED <<pc, frame, disk, writes, stdout, exc, pool, results, repeated>>

\* line 21: if has_dot
L21_IfHasDot ==
    /\ cpc = "L21"
    /\ cpc' = IF frame.has_dot THEN "L22" ELSE "L32"
    /\ UNCHANGED <<pc, frame, img, disk, writes, stdout, exc, pool, results, repeated>>

\* line 22
L22_DotMargin ==
    /\ cpc = "L22"
    /\ frame' = Bind(frame, "dot_margin", dot_margin(frame.size))
    /\ cpc' = "L23"
    /\ UNCHANGED <<pc, img, disk, writes, stdout, exc, pool, results, repeated>>

\* line 23
L23_DotSize ==
    /\ cpc = "L23"
    /\ frame' = Bind(frame, "dot_size", dot_size(frame.size))
    /\ cpc' = "L24"
    /\ UNCHANGED <<pc, img, disk, writes, stdout, exc, pool, results, repeated>>

\* lines 24-29
L24_DotPos ==
    /\ cpc = "L24"
    /\ frame' = Bind(frame, "dot_pos",
                     dot_pos(frame.size, frame.dot_margin, frame.dot_size))
    /\ cpc' = "L30"
    /\ UNCHANGED <<pc, img, disk, writes, stdout, exc, pool, results, repeated>>

\* a variant of line 30: the badge filled with the diamond's colour
L30_EllipseWhite ==
    /\ cpc = "L30"
    /\ img' = draw_ellipse(img, frame.dot_pos, White)
    /\ cpc' = "L32"
    /\ UNCHANGED <<pc, frame, disk, writes, stdout, exc, pool, results, repeated>>

\* line 30
L30_Ellipse ==
    /\ cpc = "L30"
    /\ img' = draw_ellipse(img, frame.dot_pos, Green)
    /\ cpc' = "L32"
    /\ UNCHANGED <<pc, frame, disk, writes, stdout, exc, pool, results, repeated>>

\* line 32: return img. The caller now holds the canvas; the frame stays
\* readable until the caller goes on.
L32_Return ==
    /\ cpc = "L32"
    /\ cpc' = "returned"
    /\ results' = results \cup
          {[size |-> frame.size, has_dot |-> frame.has_dot, img |-> img]}
    /\ repeated' = (repeated \/ \E r \in results :
                                  r.size = frame.size /\ r.has_dot = frame.has_dot)
    /\ UNCHANGED <<pc, frame, img, disk, writes, stdout, exc, pool>>

create_diamond ==
    \/ L5_ImageNew
    \/ L11_Margin
    \/ L12_Points
    \/ L19_Polygon
    \/ L21_IfHasDot
    \/ L22_DotMargin
    \/ L23_DotSize
    \/ L24_DotPos
    \/ L30_Ellipse
    \/ L32_Return

---------------------------------------------------------------------------
(* The module's top level, lines 35-40 *)

\* a variant of Script: the two 22-pixel icons first, then the two 44-pixel
Script_BySize ==
    << [line |-> "L35", size |-> Size1x, has_dot |-> FALSE,
        file |-> "tray_iconTemplate.png"],
       [line |-> "L36", size |-> Size1x, has_dot |-> TRUE,
        file |-> "tray_icon_activeTemplate.png"],
       [line |-> "L37", size |-> Size2x, has_dot |-> FALSE,
        file |-> "tray_iconTemplate@2x.png"],
       [line |-> "L38", size |-> Size2x, has_dot |-> TRUE,
        file |-> "tray_icon_activeTemplate@2x.png"] >>

Script ==
    << [line |-> "L35", size |-> Size1x, has_dot |-> FALSE,
        file |-> "tray_iconTemplate.png"],
       [line |-> "L36", size |-> Size2x, has_dot |-> FALSE,
        file |-> "tray_iconTemplate@2x.png"],
       [line |-> "L37", size |-> Size1x, has_dot |-> TRUE,
        file |-> "tray_icon_activeTemplate.png"],
       [line |-> "L38", size |-> Size2x, has_dot |-> TRUE,
        file |-> "tray_icon_activeTemplate@2x.png"] >>

FileNames == { Script[i].file : i \in 1 .. Len(Script) }

ScriptLines == { Script[i].line : i \in 1 .. Len(Script) }

Stmt(line) == Script[CHOOSE i \in 1 .. Len(Script) : Script[i].line = line]

\* the statement that follows a line of the script; line 40 is the print
NextLine(line) ==
    LET i == CHOOSE k \in 1 .. Len(Script) : Script[k].line = line
    IN  IF i < Len(Script) THEN Script[i + 1].line ELSE "L40"

\* a variant of Unhandled: the exception is caught and the script goes on
Unhandled_Swallowed(line) == NextLine(line)

\* where the program goes when a statement at line raises: nothing catches
\* the exception, the interpreter prints the traceback and exits
Unhandled(line) == "exit1"

ConfirmationLine == "Icons generated successfully."

\* what the disk holds under a name
Absent == [format |-> "absent"]

Stale == [format |-> "stale"]

Partial == [format |-> "partial"]

\* img.save(name): the canvas encoded as a PNG file
EncodePNG(image) ==
    [format |-> "PNG", width |-> image.width, height |-> image.height,
     px |-> image.px]

NoExc == [raised |-> FALSE, line |-> "", at |-> ""]

\* lines 35-38, first half: the call create_diamond(size[, True])
ScriptCall ==
    /\ pc \in ScriptLines
    /\ cpc = "none"
    /\ frame' = [size |-> Stmt(pc).size, has_dot |-> Stmt(pc).has_dot]
    /\ cpc' = "L5"
    /\ UNCHANGED <<pc, img, disk, writes, stdout, exc, pool, results, repeated>>

\* lines 35-38, second half: .save(file) on the canvas returned
ScriptSave ==
    /\ pc \in ScriptLines
    /\ cpc = "returned"
    /\ disk' = [disk EXCEPT ![Stmt(pc).file] = EncodePNG(img)]
    /\ writes' = Append(writes, Stmt(pc).file)
    /\ cpc' = "none"
    /\ frame' = NoFrame
    /\ img' = NoImg
    /\ pc' = NextLine(pc)
    /\ UNCHANGED <<stdout, exc, pool, results, repeated>>

\* line 40
ScriptPrint ==
    /\ pc = "L40"
    /\ stdout' = Append(stdout, ConfirmationLine)
    /\ pc' = "exit0"
    /\ UNCHANGED <<cpc, frame, img, disk, writes, exc, pool, results, repeated>>

\* Image.new, draw.polygon or draw.ellipse raises inside create_diamond: the
\* frame is unwound and the exception reaches the top level
RaiseInRender ==
    /\ pc \in ScriptLines
    /\ cpc \in {"L5", "L19", "L30"}
    /\ exc' = [raised |-> TRUE, line |-> pc, at |-> cpc]
    /\ cpc' = "none"
    /\ frame' = NoFrame
    /\ img' = NoImg
    /\ pc' = Unhandled(pc)
    /\ UNCHANGED <<disk, writes, stdout, pool, results, repeated>>

\* save raises: either the file could not be opened, and the disk is as it
\* was, or the encoder failed with the file open, and what was under the name
\* is lost
RaiseInSave ==
    /\ pc \in ScriptLines
    /\ cpc = "returned"
    /\ \E left \in {disk[Stmt(pc).file], Partial} :
          disk' = [disk EXCEPT ![Stmt(pc).file] = left]
    /\ exc' = [raised |-> TRUE, line |-> pc, at |-> "save"]
    /\ cpc' = "none"
    /\ frame' = NoFrame
    /\ img' = NoImg
    /\ pc' = Unhandled(pc)
    /\ UNCHANGED <<writes, stdout, pool, results, repeated>>

Init ==
    /\ pc = Script[1].line
    /\ cpc = "none"
    /\ frame = NoFrame
    /\ img = NoImg
    /\ disk \in [FileNames -> {Absent, Stale}]
    /\ writes = <<>>
    /\ stdout = <<>>
    /\ exc = NoExc
    /\ pool = {Size1x, Size2x}
    /\ results = {}
    /\ repeated = FALSE

Next ==
    \/ ScriptCall
    \/ create_diamond
    \/ ScriptSave
    \/ ScriptPrint
    \/ RaiseInRender
    \/ RaiseInSave

Spec == Init /\ [][Next]_vars

---------------------------------------------------------------------------
(* create_diamond as a function: a caller that calls it over and over,     *)
(* with a size of its pool and either flag, and keeps what it returns      *)

Pools == { {s} : s \in 1 .. MaxSize } \cup { {Size1x, Size2x} }

RenderCall ==
    /\ pc = "harness"
    /\ cpc \in {"none", "returned"}
    /\ \E s \in pool, d \in BOOLEAN :
          frame' = [size |-> s, has_dot |-> d]
    /\ cpc' = "L5"
    /\ UNCHANGED <<pc, img, disk, writes, stdout, exc, pool, results, repeated>>

RenderInit ==
    /\ pc = "harness"
    /\ cpc = "none"
    /\ frame = NoFrame
    /\ img = NoImg
    /\ disk = [f \in FileNames |-> Absent]
    /\ writes = <<>>
    /\ stdout = <<>>
    /\ exc = NoExc
    /\ pool \in Pools
    /\ results = {}
    /\ repeated = FALSE

RenderNext ==
    \/ RenderCall
    \/ create_diamond

RenderSpec == RenderInit /\ [][RenderNext]_vars

---------------------------------------------------------------------------
(* Properties of the script (checked under Spec) *)

FileOrder ==
    << "tray_iconTemplate.png", "tray_iconTemplate@2x.png",
       "tray_icon_activeTemplate.png", "tray_icon_activeTemplate@2x.png" >>

IsPrefix(s, t) == Len(s) <= Len(t) /\ \A i \in 1 .. Len(s) : s[i] = t[i]

HasBadge(file) == \E p \in DOMAIN file.px : file.px[p] = Green

\* the file under name is a complete n x n icon, with or without the badge
IsIcon(name, n, badge) ==
    /\ disk[name].format = "PNG"
    /\ disk[name].width = n
    /\ disk[name].height = n
    /\ HasBadge(disk[name]) <=> badge

AllFourWritten ==
    /\ writes = FileOrder
    /\ IsIcon(FileOrder[1], 22, FALSE)
    /\ IsIcon(FileOrder[2], 44, FALSE)
    /\ IsIcon(FileOrder[3], 22, TRUE)
    /\ IsIcon(FileOrder[4], 44, TRUE)

\* C1: the files are written in the order tray_iconTemplate.png (22x22, no
\* badge), tray_iconTemplate@2x.png (44x44, no badge),
\* tray_icon_activeTemplate.png (22x22, badge), tray_icon_activeTemplate@2x.png
\* (44x44, badge); a run that ends without a failure has written exactly these
\* four, and the confirmation line is printed at most once and only when all
\* four are written.
C1_FourFilesThenConfirmation ==
    /\ IsPrefix(writes, FileOrder)
    /\ Len(stdout) <= 1
    /\ stdout # <<>> => stdout = <<ConfirmationLine>> /\ AllFourWritten
    /\ pc = "L40" => AllFourWritten
    /\ pc = "exit0" => stdout = <<ConfirmationLine>> /\ AllFourWritten /\ ~exc.raised

C1_Witness ==
    /\ pc = "exit0"
    /\ ~exc.raised
    /\ Len(writes) = 4
    /\ stdout = <<ConfirmationLine>>

\* C2: when a render or a save raises, the step that raises writes no file
\* and leaves the files of the earlier steps as they were, nothing is printed,
\* the program is at its failure exit, and from then on no step is taken at
\* all: no later file, no retry, no confirmation line, no rollback.
C2_FailureTerminates ==
    [][ /\ exc.raised => UNCHANGED vars
        /\ exc'.raised /\ ~exc.raised =>
              /\ pc' = "exit1"
              /\ writes' = writes
              /\ stdout' = <<>>
              /\ \A i \in 1 .. Len(writes) :
                    /\ disk'[writes[i]] = disk[writes[i]]
                    /\ disk'[writes[i]].format = "PNG"
              /\ \A name \in FileNames \ {Stmt(pc).file} :
                    disk'[name] = disk[name] ]_vars

C2_Witness ==
    /\ exc.raised
    /\ pc = "exit1"
    /\ Len(writes) = 2
    /\ disk[writes[1]].format = "PNG"
    /\ disk[writes[2]].format = "PNG"
    /\ stdout = <<>>

\* the canvas of the call that has just returned, for given arguments
Returned(size, has_dot) ==
    cpc = "returned" /\ frame.size = size /\ frame.has_dot = has_dot

GreenPixels(image) == { p \in DOMAIN image.px : image.px[p] = Green }

\* C7 as amended: create_diamond(22, False) computes the vertices (11,5),
\* (17,11), (11,17), (5,11) and returns a 22x22 canvas with no green pixel.
C7_Diamond22 ==
    /\ HasLocal("points") /\ frame.size = 22 /\ ~frame.has_dot
       => frame.points = << <<11, 5>>, <<17, 11>>, <<11, 17>>, <<5, 11>> >>
    /\ Returned(22, FALSE)
       => img.width = 22 /\ img.height = 22 /\ GreenPixels(img) = {}

C7_Witness ==
    /\ Returned(22, FALSE)
    /\ img.px[<<17, 11>>] = White

\* C7 as stated: the vertices of create_diamond(22, False) are (11,5), (16,11),
\* (11,16), (5,11), and no pixel is green.
C7_AsStated ==
    /\ HasLocal("points") /\ frame.size = 22 /\ ~frame.has_dot
       => frame.points = << <<11, 5>>, <<16, 11>>, <<11, 16>>, <<5, 11>> >>
    /\ Returned(22, FALSE)
       => img.width = 22 /\ img.height = 22 /\ GreenPixels(img) = {}

\* C8 as amended: create_diamond(44, True) computes the vertices (22,11),
\* (33,22), (22,33), (11,22) and the badge box (33,33)-(40,40); the canvas it
\* returns has green pixels, all of them inside that box, the middle of the box
\* among them.
C8_Badge44 ==
    /\ HasLocal("points") /\ frame.size = 44 /\ frame.has_dot
       => frame.points = << <<22, 11>>, <<33, 22>>, <<22, 33>>, <<11, 22>> >>
    /\ HasLocal("dot_pos") /\ frame.size = 44 /\ frame.has_dot
       => frame.dot_pos = <<33, 33, 40, 40>>
    /\ Returned(44, TRUE)
       => /\ GreenPixels(img) # {}
          /\ GreenPixels(img) \subseteq (33 .. 40) \X (33 .. 40)
          /\ {<<36, 36>>, <<37, 36>>, <<36, 37>>, <<37, 37>>} \subseteq GreenPixels(img)

C8_Witness ==
    /\ Returned(44, TRUE)
    /\ img.px[<<33, 36>>] = Green

\* C8 as stated: the badge box of create_diamond(44, True) is (30,30)-(37,37),
\* filled green.
C8_AsStated ==
    /\ HasLocal("points") /\ frame.size = 44 /\ frame.has_dot
       => frame.points = << <<22, 11>>, <<33, 22>>, <<22, 33>>, <<11, 22>> >>
    /\ HasLocal("dot_pos") /\ frame.size = 44 /\ frame.has_dot
       => frame.dot_pos = <<30, 30, 37, 37>>
    /\ Returned(44, TRUE)
       => /\ GreenPixels(img) # {}
          /\ GreenPixels(img) \subseteq (30 .. 37) \X (30 .. 37)

\* the pixels of the canvas inside the filled diamond of the running call
DiamondPixels == { p \in DOMAIN img.px : PolygonCovers(frame.points, p[1], p[2]) }

\* the pixels of the canvas inside the badge's bounding box of the running call
BoxPixels ==
    { p \in DOMAIN img.px :
        /\ frame.dot_pos[1] <= p[1] /\ p[1] <= frame.dot_pos[3]
        /\ frame.dot_pos[2] <= p[2] /\ p[2] <= frame.dot_pos[4] }

ScriptBadgeReturned == cpc = "returned" /\ frame.has_dot /\ frame.size \in {22, 44}

---------------------------------------------------------------------------
(* Properties of create_diamond (checked under RenderSpec) *)

Alpha(colour) == colour[4]

\* C3: for size >= 4, create_diamond(size, False) returns a size x size canvas
\* whose pixel (size // 2, size // 2) is opaque white and whose four corners
\* are fully transparent.
C3_CentreWhiteCornersClear ==
    \A r \in results :
        r.size >= 4 /\ ~r.has_dot =>
            /\ r.img.width = r.size
            /\ r.img.height = r.size
            /\ DOMAIN r.img.px = PixelsOf(r.size, r.size)
            /\ r.img.px[<<r.size \div 2, r.size \div 2>>] = White
            /\ \A c \in { <<0, 0>>, <<r.size - 1, 0>>, <<0, r.size - 1>>,
                          <<r.size - 1, r.size - 1>> } :
                  Alpha(r.img.px[c]) = 0

C3_Witness ==
    \E r \in results :
        r.size = 4 /\ ~r.has_dot /\ r.img.px[<<2, 2>>] = White

\* the badge's bounding box as the claim gives it
InBadgeBox(size, p) ==
    LET lo == size - Max(2, size \div 10) - Max(3, size \div 6)
        hi == size - Max(2, size \div 10)
    IN  lo <= p[1] /\ p[1] <= hi /\ lo <= p[2] /\ p[2] <= hi

\* C4: for every size, the canvases of create_diamond(size, True) and
\* create_diamond(size, False) have the same colour at every pixel outside the
\* badge's bounding box [size - dot_margin - dot_size, size - dot_margin]^2.
C4_SameOutsideBadgeBox ==
    \A r1, r2 \in results :
        r1.size = r2.size /\ r1.has_dot /\ ~r2.has_dot =>
            /\ DOMAIN r1.img.px = DOMAIN r2.img.px
            /\ \A p \in DOMAIN r1.img.px :
                  ~InBadgeBox(r1.size, p) => r1.img.px[p] = r2.img.px[p]

C4_Witness ==
    \E r1, r2 \in results :
        /\ r1.size = r2.size /\ r1.has_dot /\ ~r2.has_dot
        /\ \E p \in DOMAIN r1.img.px : r1.img.px[p] # r2.img.px[p]
        /\ \E p \in DOMAIN r1.img.px : ~InBadgeBox(r1.size, p) /\ r1.img.px[p] = White

\* C5: for size >= 10 the badge's bounding box lies inside the canvas:
\* 0 <= size - dot_margin - dot_size and size - dot_margin < size, and all four
\* coordinates of the box are in [0, size).
C5_BadgeBoxInsideCanvas ==
    HasLocal("dot_pos") /\ frame.size >= 10 =>
        /\ 0 <= frame.size - frame.dot_margin - frame.dot_size
        /\ frame.size - frame.dot_margin < frame.size
        /\ \A i \in 1 .. 4 : frame.dot_pos[i] \in 0 .. frame.size - 1

C5_Witness ==
    /\ HasLocal("dot_pos")
    /\ frame.size = 10
    /\ cpc = "returned"

\* C6: for size >= 4 each of the four vertices of the diamond has both
\* coordinates in [0, size).
C6_VerticesInsideCanvas ==
    HasLocal("points") /\ frame.size >= 4 =>
        /\ Len(frame.points) = 4
        /\ \A i \in 1 .. 4 :
              /\ frame.points[i][1] \in 0 .. frame.size - 1
              /\ frame.points[i][2] \in 0 .. frame.size - 1

C6_Witness ==
    /\ HasLocal("points")
    /\ frame.size = 4
    /\ frame.points[2] = <<3, 2>>

\* C9: two calls of create_diamond with the same arguments return the same
\* canvas, pixel for pixel, whatever was called before and in whatever order;
\* and no call touches the disk, the files written or the output.
C9_Deterministic ==
    /\ \A r1, r2 \in results :
          r1.size = r2.size /\ r1.has_dot = r2.has_dot => r1.img = r2.img
    /\ writes = <<>>
    /\ stdout = <<>>
    /\ \A name \in FileNames : disk[name] = Absent

C9_Witness ==
    /\ repeated
    /\ cpc = "returned"
    /\ Cardinality(results) = 4

====
